---- MODULE Spec2Model ----
(***************************************************************************)
(* Model of src/data_comp_app.py: the Streamlit script that compares a     *)
(* "Previous" and a "Current" CSV upload (key-based matching, field-level  *)
(* diff, New/Missing classification, summary numbers) and caches the       *)
(* result in st.session_state.                                             *)
(*                                                                         *)
(* Cells.  A cell of a float64 column is NaN or one of FloatVals, written  *)
(* as Python prints it ("1.0").  A cell of an object column produced by    *)
(* cast(s, "string") is the text str() gives, so NaN becomes the non-null  *)
(* text "nan".  The dtype of a column is kept beside the cells, in the     *)
(* frame, as pandas does.                                                  *)
(*                                                                         *)
(* pandas semantics the model relies on (pandas >= 2.2, as documented):    *)
(*   - DataFrame.merge without "on" joins on the columns common to both    *)
(*     frames, NaN matching NaN; how="left" keeps the left row order,      *)
(*     how="outer" sorts the join keys lexicographically;                  *)
(*   - merging an object (string) column with a float64 column raises      *)
(*     ValueError;                                                         *)
(*   - elementwise == is False wherever an operand is NaN, != is True;     *)
(*   - Series[label] of a label the Series lacks raises KeyError;          *)
(*   - DataFrame.apply(f, axis=1) of a frame without rows gives an empty   *)
(*     Series when f returns a scalar on an all-NaN row (make_key and      *)
(*     diff_desc do), so an empty diff/new yields empty columns.           *)
(* The Created_Date column (today's date on every record) and the          *)
(* "% of Discrepancies" column of the breakdown (count / nm, rounded) are  *)
(* left out: they are derived from values the model keeps.                 *)
(***************************************************************************)
EXTENDS Integers, Sequences, FiniteSets, TLC

VARIABLES
    prev_file,        \* uploader widget "Previous CSV": a file name, or NoFile
    curr_file,        \* uploader widget "Current CSV"
    ss_files,         \* session_state: prev_file_name, curr_file_name, prev_raw, curr_raw
    col_map,          \* session_state.col_map (and the map_<col> selectboxes)
    dtypes_prev,      \* session_state.dtypes_prev (and the prev_dtype_<col> selectboxes)
    dtypes_curr,      \* session_state.dtypes_curr
    key_cols,         \* multiselect "Select Key Column(s)", in selection order
    prev_df,          \* the script's prev_df after casting (line 220)
    curr_df,          \* the script's curr_df after casting and renaming (line 242)
    cmp_out,          \* session_state.cmp_out: None, or Some(out)
    cmp_br,           \* session_state.cmp_br
    cmp_stats,        \* session_state.cmp_stats
    outcome           \* how the last run of the script ended, and what it rendered

vars == <<prev_file, curr_file, ss_files, col_map, dtypes_prev, dtypes_curr,
          key_cols, prev_df, curr_df, cmp_out, cmp_br, cmp_stats, outcome>>

(***************************************************************************)
(* Bounds                                                                  *)
(***************************************************************************)
MaxRows == 2

\* rows per frame when the two files differ in their columns
MaxRowsWide == 1

(***************************************************************************)
(* Cells, rows, frames                                                     *)
(***************************************************************************)
NaN == "NaN"

FloatVals == {"1.0", "2.0"}

Cells == {NaN} \cup FloatVals

Range(s) == {s[i] : i \in DOMAIN s}

\* F applied to the value of v, v evaluated once
Let(v, F(_)) == CHOOSE y \in {F(x) : x \in {v}} : TRUE

SeqsUpTo(S, n) == UNION {[1..k -> S] : k \in 0..n}

\* pd.isna(x)
IsNa(x) == x = NaN

\* str(x) of a cell: a float NaN prints as "nan", text is itself
Str(x) == IF x = NaN THEN "nan" ELSE x

\* elementwise ==  (False when either operand is NaN)
PdEq(a, b) == ~IsNa(a) /\ ~IsNa(b) /\ a = b

\* Python != on two cells (True when either operand is NaN)
PdNe(a, b) == ~PdEq(a, b)

\* position of a cell in the sort order of a join key: values ascending, null last
Rank(x) == CASE x = "1.0" -> 1 [] x = "2.0" -> 2 [] x = "nan" -> 3 [] OTHER -> 4

\* the position of the column called c (frame[c] of a label one column carries)
Pos(cols, c) == CHOOSE i \in DOMAIN cols : cols[i] = c

\* row[c] of a row whose index is cols
At(row, cols, c) == row[Pos(cols, c)]

\* the columns of `cols` that are also in `other`, in the order of `cols`
\* (Index.intersection keeps the calling index's order)
CommonCols(cols, other) ==
    LET In(c) == c \in Range(other) IN SelectSeq(cols, In)

\* the columns of `other` that `cols` lacks, in the order of `other`
ExtraCols(cols, other) ==
    LET Out(c) == c \notin Range(cols) IN SelectSeq(other, Out)

\* a row of frame `cols` laid out on the columns `all`, NaN where it has no cell
Reindex(row, cols, all) ==
    [i \in DOMAIN all |-> IF all[i] \in Range(cols) THEN At(row, cols, all[i]) ELSE NaN]

Frame(cols, dtype, rows) == [cols |-> cols, dtype |-> dtype, rows |-> rows]

\* frame[c].dtype
DtypeAt(frame, c) == frame.dtype[Pos(frame.cols, c)]

None == <<>>

Some(x) == <<x>>

(***************************************************************************)
(* Helper functions (lines 68-121)                                         *)
(***************************************************************************)
DTYPE_OPTIONS == <<"string", "int", "float", "datetime", "bool">>

TIMESTAMP_COLS == {"data as of:", "data downloaded on:"}

\* infer(s), by the pandas dtype of the column
infer(dt) ==
    CASE dt = "float64" -> "float"
      [] dt = "int64" -> "int"
      [] dt = "datetime64[ns]" -> "datetime"
      [] dt = "bool" -> "bool"
      [] OTHER -> "string"

\* cast(s, kind) on one cell of a float64 column read from the CSV; the kinds
\* the modelled sessions select are "string" and "float"
cast(x, kind) ==
    CASE kind = "string" -> Str(x)
      [] OTHER -> x

\* the pandas dtype of cast(s, kind)
CastDtype(kind) ==
    CASE kind = "string" -> "object"
      [] kind = "int" -> "Int64"
      [] kind = "float" -> "float64"
      [] kind = "datetime" -> "datetime64[ns]"
      [] kind = "bool" -> "boolean"

RECURSIVE JoinStr(_)
JoinStr(parts) ==
    IF Len(parts) = 0 THEN ""
    ELSE IF Len(parts) = 1 THEN parts[1]
    ELSE parts[1] \o "||" \o JoinStr(Tail(parts))

\* make_key(r, keys), r a row whose index is cols
make_key(r, cols, keys) == JoinStr([i \in DOMAIN keys |-> Str(At(r, cols, keys[i]))])

Missing == "Row is missing from latest upload"

NewRow == "New row in current upload"

KeyErrorRaised == "KeyError"

Desc(text, parts) == [text |-> text, parts |-> parts]

\* the condition of line 112, for one column of the row and of its match
ListedNoNullCheck(old, new) == PdNe(old, new)

Listed(old, new) == ~(IsNa(old) /\ IsNa(new)) /\ PdNe(old, new)

\* diff_desc(r, cur, keys); cols is r.index.  new[c] of a column the current
\* frame lacks raises KeyError.
diff_desc(r, cols, cur, keys) ==
    LET Hit(row) == \A i \in DOMAIN keys :
                        PdEq(At(row, cur.cols, keys[i]), At(r, cols, keys[i]))
        Describe(hits) ==
            IF Len(hits) = 0 THEN Desc(Missing, <<>>)
            ELSE IF \E c \in Range(cols) : c \notin Range(cur.cols)
            THEN Desc(KeyErrorRaised, <<>>)
            ELSE LET new == hits[1]
                     Differs(c) == Listed(At(r, cols, c), At(new, cur.cols, c))
                     Parts(listed) ==
                         [i \in DOMAIN listed |->
                             <<listed[i], Str(At(r, cols, listed[i])),
                               Str(At(new, cur.cols, listed[i]))>>]
                 IN  Desc("", Let(SelectSeq(cols, Differs), Parts))
    IN  Let(SelectSeq(cur.rows, Hit), Describe)

\* cols_from(desc)
cols_from(d) ==
    IF d.text = NewRow THEN <<"NEW_ROW">>
    ELSE IF d.text = Missing THEN <<"MISSING_ROW">>
    ELSE [i \in DOMAIN d.parts |-> d.parts[i][1]]

(***************************************************************************)
(* The comparison (lines 268-327)                                          *)
(***************************************************************************)
\* two rows agree on every join column; merge matches a null key with a null key
MergeMatchNullUnequal(l, lcols, r, rcols, on) ==
    \A c \in Range(on) : PdEq(At(l, lcols, c), At(r, rcols, c))

MergeMatch(l, lcols, r, rcols, on) ==
    \A c \in Range(on) : At(l, lcols, c) = At(r, rcols, c)

\* the rows of `left` that merge(right, indicator=True) marks "left_only"
LeftOnly(left, right) ==
    LET on == CommonCols(left.cols, right.cols)
        Alone(row) == \A j \in DOMAIN right.rows :
                          ~MergeMatch(row, left.cols, right.rows[j], right.cols, on)
    IN  SelectSeq(left.rows, Alone)

\* row a sorts strictly before row b on the join columns, lexicographically
RECURSIVE LexLess(_, _, _, _)
LexLess(a, b, cols, on) ==
    IF Len(on) = 0 THEN FALSE
    ELSE IF Rank(At(a, cols, on[1])) # Rank(At(b, cols, on[1]))
    THEN Rank(At(a, cols, on[1])) < Rank(At(b, cols, on[1]))
    ELSE LexLess(a, b, cols, Tail(on))

\* stable insertion of row x into the sorted sequence s
RECURSIVE InsertSorted(_, _, _, _)
InsertSorted(x, s, cols, on) ==
    IF Len(s) = 0 THEN <<x>>
    ELSE IF LexLess(x, s[1], cols, on) THEN <<x>> \o s
    ELSE <<s[1]>> \o InsertSorted(x, Tail(s), cols, on)

RECURSIVE SortRows(_, _, _)
SortRows(rows, cols, on) ==
    IF Len(rows) = 0 THEN <<>>
    ELSE InsertSorted(rows[Len(rows)],
                      SortRows(SubSeq(rows, 1, Len(rows) - 1), cols, on), cols, on)

\* the order in which merge(how="left") gives the left_only rows: the left order
LeftJoinOrder(rows, cols, on) == rows

\* the order in which merge(how="outer") gives the left_only rows: join keys sorted
OuterJoinOrder(rows, cols, on) == SortRows(rows, cols, on)

Record(row, desc) == [row |-> row, desc |-> desc]

\* lines 287-290: drop the new rows whose key is the key of a diff row
FilterNewKeepAll(new, cols, diff_keys, keys) == new

FilterNew(new, cols, diff_keys, keys) ==
    LET Keep(rec) == make_key(rec.row, cols, keys) \notin diff_keys
    IN  SelectSeq(new, Keep)

\* line 297; the float nm / pc * 100 is kept as the fraction <<numerator, denominator>>
PctFraction(nm, pc) == IF pc # 0 THEN <<nm, pc>> ELSE <<0, 1>>

Pct(nm, pc) == IF pc # 0 THEN <<nm * 100, pc>> ELSE <<0, 1>>

\* Counter(col for s in out["Discrepancy_Columns"] for col in cols_from(s))
Counter(recs) ==
    LET Tally(names) ==
            LET all == UNION {Range(names[i]) : i \in DOMAIN names}
                Mentions(n) == UNION {{<<i, j>> : j \in {k \in DOMAIN names[i] :
                                                         names[i][k] = n}} :
                                         i \in DOMAIN names}
            IN  [n \in all |-> Cardinality(Mentions(n))]
    IN  Let([i \in DOMAIN recs |-> cols_from(recs[i].desc)], Tally)

Raised(exc) == [exc |-> exc, out |-> [cols |-> <<>>, recs |-> <<>>], br |-> <<>>, stats |-> <<>>]

\* lines 272-279: the previous rows without an identical current row, described
DiffRecords(prev, curr, keys, all) ==
    LET Describe(rows) ==
            [i \in DOMAIN rows |->
                LET Annotate(r) == Record(r, diff_desc(r, all, curr, keys))
                IN  Let(Reindex(rows[i], prev.cols, all), Annotate)]
    IN  Let(LeftJoinOrder(LeftOnly(prev, curr), prev.cols,
                          CommonCols(prev.cols, curr.cols)), Describe)

\* lines 281-290: the current rows without an identical previous row, less the
\* rows whose key a diff row has
NewRecords(prev, curr, keys, all, diff) ==
    LET Annotate(rows) ==
            [i \in DOMAIN rows |->
                Record(Reindex(rows[i], curr.cols, all), Desc(NewRow, <<>>))]
        new_all == Let(OuterJoinOrder(LeftOnly(curr, prev), curr.cols,
                                      CommonCols(curr.cols, prev.cols)), Annotate)
        diff_keys == {make_key(diff[i].row, all, keys) : i \in DOMAIN diff}
    IN  FilterNew(new_all, all, diff_keys, keys)

\* lines 292-327: the concatenation, the summary numbers and the breakdown
Summary(prev, curr, keys, all, out) ==
    LET pc == Len(prev.rows)
        cc == Len(curr.rows)
        nm == Len(out)
        pk == {make_key(prev.rows[i], prev.cols, keys) : i \in DOMAIN prev.rows}
        ck == {make_key(curr.rows[i], curr.cols, keys) : i \in DOMAIN curr.rows}
    IN  [exc |-> "", out |-> [cols |-> all, recs |-> out], br |-> Counter(out),
         stats |-> [pc |-> pc, cc |-> cc, dropped |-> Cardinality(pk \ ck),
                    added |-> Cardinality(ck \ pk), nm |-> nm, pct |-> Pct(nm, pc)]]

\* the block under "if run_clicked:": what it caches, or the exception it raises
Comparison(prev, curr, keys) ==
    LET on == CommonCols(prev.cols, curr.cols)
        WithCols(all) ==
            LET WithDiff(diff) ==
                    LET WithOut(out) == Summary(prev, curr, keys, all, out)
                    IN  IF \E i \in DOMAIN diff : diff[i].desc.text = KeyErrorRaised
                        THEN Raised("KeyError")
                        ELSE Let(diff \o NewRecords(prev, curr, keys, all, diff), WithOut)
            IN  Let(DiffRecords(prev, curr, keys, all), WithDiff)
    IN  IF Len(on) = 0 THEN Raised("MergeError")
        ELSE IF \E c \in Range(on) : DtypeAt(prev, c) # DtypeAt(curr, c)
        THEN Raised("ValueError")
        ELSE Let(prev.cols \o ExtraCols(prev.cols, curr.cols), WithCols)

(***************************************************************************)
(* The uploaded files                                                      *)
(***************************************************************************)
NoFile == ""

NoneCol == "-- none --"

PrevFiles == {"prev_a.csv", "prev_b.csv"}

CurrFiles == {"curr_a.csv", "curr_b.csv"}

\* pd.read_csv(file): columns of floats, and a timestamp column read as text
read_csv(name) ==
    CASE name = "prev_a.csv" ->
            Frame(<<"id", "v">>, <<"float64", "float64">>,
                  << <<"1.0", "1.0">>, <<"2.0", "1.0">> >>)
      [] name = "prev_b.csv" ->
            Frame(<<"id", "v", "data as of:">>, <<"float64", "float64", "object">>,
                  << <<"1.0", "1.0", "nan">>, <<NaN, "2.0", "nan">> >>)
      [] name = "curr_a.csv" ->
            Frame(<<"id", "v">>, <<"float64", "float64">>,
                  << <<"1.0", "1.0">>, <<"2.0", "2.0">> >>)
      [] name = "curr_b.csv" ->
            Frame(<<"id", "v">>, <<"float64", "float64">>,
                  << <<"1.0", "2.0">>, <<NaN, "2.0">> >>)

(***************************************************************************)
(* The script, top to bottom (lines 136-357)                               *)
(***************************************************************************)
\* the frame restricted to the columns at the positions `keep`, in order
Project(frame, keep) ==
    Frame([i \in DOMAIN keep |-> frame.cols[keep[i]]],
          [i \in DOMAIN keep |-> frame.dtype[keep[i]]],
          [r \in DOMAIN frame.rows |-> [i \in DOMAIN keep |-> frame.rows[r][keep[i]]]])

\* lines 161-168: drop the timestamp columns (names are stripped, lower case)
DropTimestamps(frame) ==
    LET Kept(i) == frame.cols[i] \notin TIMESTAMP_COLS
    IN  Project(frame, SelectSeq([i \in DOMAIN frame.cols |-> i], Kept))

\* lines 220 and 232: every column cast to the dtype chosen for it
CastFrame(frame, kinds) ==
    Frame(frame.cols,
          [i \in DOMAIN frame.cols |-> CastDtype(kinds[frame.cols[i]])],
          [r \in DOMAIN frame.rows |->
              [i \in DOMAIN frame.cols |-> cast(frame.rows[r][i], kinds[frame.cols[i]])]])

\* lines 242-244: {v: k for k, v in col_map.items() if v and v in curr_df.columns};
\* `order` is the order of col_map's items, a later item replacing an earlier one
RECURSIVE RenameTo(_, _, _, _)
RenameTo(c, cm, order, n) ==
    IF n = 0 THEN c
    ELSE IF cm[order[n]] = c THEN order[n]
    ELSE RenameTo(c, cm, order, n - 1)

Rename(frame, cm, order) ==
    Frame([i \in DOMAIN frame.cols |-> RenameTo(frame.cols[i], cm, order, Len(order))],
          frame.dtype, frame.rows)

Occurrences(cols, c) == Cardinality({i \in DOMAIN cols : cols[i] = c})

\* lines 253-260.  curr_df[k] of a missing label raises KeyError inside the
\* f-string; of a label two columns carry it is a DataFrame, without .dtype.
MismCheck(prev, curr, keys) ==
    LET Raises(i) == Occurrences(curr.cols, keys[i]) # 1
        raising == {i \in DOMAIN keys : Raises(i)}
        first == CHOOSE i \in raising : \A j \in raising : i <= j
    IN  IF raising # {}
        THEN IF Occurrences(curr.cols, keys[first]) = 0
             THEN "KeyError@254" ELSE "AttributeError@254"
        ELSE IF \E i \in DOMAIN keys : DtypeAt(prev, keys[i]) # DtypeAt(curr, keys[i])
        THEN "st.stop@260"
        ELSE "ok"

KeyCheckNoEmptyGuard(prev, curr, keys) == MismCheck(prev, curr, keys)

\* lines 250-260: how the key selection is refused, or "ok"
KeyCheck(prev, curr, keys) ==
    IF Len(keys) = 0 THEN "st.stop@251" ELSE MismCheck(prev, curr, keys)

\* the outcomes after which the "Run Comparison" button is on the page
ButtonShown == {"idle", "rendered", "ValueError@272", "MergeError@272", "KeyError@276"}

ExcAt(exc) == IF exc = "KeyError" THEN "KeyError@276" ELSE exc \o "@272"

\* lines 170-244: the choices persisted and the two frames as compared.  `order`
\* is the order of col_map's items: the previous columns, then the columns only
\* the current file has (the loop of line 194 adds them; the modelled files
\* have at most one)
Prepared(files, cm, dp, dc) ==
    LET prev0 == DropTimestamps(files.prev_raw)
        curr0 == DropTimestamps(files.curr_raw)
        order == prev0.cols \o ExtraCols(prev0.cols, curr0.cols)
        col_map0 == IF DOMAIN cm = {}
                    THEN [c \in Range(prev0.cols) |->
                             IF c \in Range(curr0.cols) THEN c ELSE NoneCol]
                    ELSE cm
        col_map1 == [c \in Range(order) |->
                        IF c \in DOMAIN col_map0 THEN col_map0[c] ELSE NoneCol]
        d_prev == [c \in DOMAIN dp \cup Range(prev0.cols) |->
                      IF c \in DOMAIN dp THEN dp[c] ELSE infer(DtypeAt(prev0, c))]
        d_curr == [c \in DOMAIN dc \cup Range(curr0.cols) |->
                      IF c \in DOMAIN dc THEN dc[c] ELSE infer(DtypeAt(curr0, c))]
    IN  [col_map |-> col_map1, d_prev |-> d_prev, d_curr |-> d_curr,
         prev_df |-> CastFrame(prev0, d_prev),
         curr_df |-> Rename(CastFrame(curr0, d_curr), col_map1, order)]

\* One run of the script with the widgets at the given values.
Script(pf, cf, cm, dp, dc, keys, run_clicked) ==
    /\ prev_file' = pf
    /\ curr_file' = cf
    /\ IF pf = NoFile \/ cf = NoFile
       THEN /\ outcome' = "st.info@357"
            /\ UNCHANGED <<ss_files, col_map, dtypes_prev, dtypes_curr, key_cols,
                           prev_df, curr_df, cmp_out, cmp_br, cmp_stats>>
       ELSE LET new_upload == \/ ss_files.prev_file_name = NoFile
                              \/ ss_files.prev_file_name # pf
                              \/ ss_files.curr_file_name # cf
                cache == IF new_upload THEN <<None, None, None>>
                         ELSE <<cmp_out, cmp_br, cmp_stats>>
            IN  \E files \in {IF new_upload
                              THEN [prev_file_name |-> pf, curr_file_name |-> cf,
                                    prev_raw |-> read_csv(pf), curr_raw |-> read_csv(cf)]
                              ELSE ss_files} :
                \E p \in {Prepared(files, cm, dp, dc)} :
                \E check \in {KeyCheck(p.prev_df, p.curr_df, keys)} :
                \E res \in {IF check = "ok" /\ run_clicked
                            THEN Comparison(p.prev_df, p.curr_df, keys)
                            ELSE Raised("")} :
                    /\ ss_files' = files
                    /\ col_map' = p.col_map
                    /\ dtypes_prev' = p.d_prev
                    /\ dtypes_curr' = p.d_curr
                    /\ key_cols' = keys
                    /\ prev_df' = p.prev_df
                    /\ curr_df' = p.curr_df
                    /\ IF check = "ok" /\ run_clicked /\ res.exc = ""
                       THEN /\ outcome' = "rendered"
                            /\ cmp_out' = Some(res.out)
                            /\ cmp_br' = Some(res.br)
                            /\ cmp_stats' = Some(res.stats)
                       ELSE /\ outcome' =
                                  IF check # "ok" THEN check
                                  ELSE IF run_clicked THEN ExcAt(res.exc)
                                  ELSE IF cache[1] # None THEN "rendered" ELSE "idle"
                            /\ cmp_out' = cache[1]
                            /\ cmp_br' = cache[2]
                            /\ cmp_stats' = cache[3]

(***************************************************************************)
(* The session: every interaction reruns the script                        *)
(***************************************************************************)
EmptyFrame == Frame(<<>>, <<>>, <<>>)

EmptyMap == [c \in {} |-> ""]

\* the dtype selectboxes the modelled user changes, and the kinds chosen
TypedCols == {"id"}

UserKinds == {"string", "float"}

\* the selections of the key multiselect: columns in the order they were picked
KeySelections(cols) ==
    {<<>>} \cup {<<c>> : c \in Range(cols)}
           \cup {<<c, d>> : <<c, d>> \in {p \in Range(cols) \X Range(cols) : p[1] # p[2]}}

Init ==
    /\ prev_file = NoFile
    /\ curr_file = NoFile
    /\ ss_files = [prev_file_name |-> NoFile, curr_file_name |-> NoFile,
                   prev_raw |-> EmptyFrame, curr_raw |-> EmptyFrame]
    /\ col_map = EmptyMap
    /\ dtypes_prev = EmptyMap
    /\ dtypes_curr = EmptyMap
    /\ key_cols = <<>>
    /\ prev_df = EmptyFrame
    /\ curr_df = EmptyFrame
    /\ cmp_out = None
    /\ cmp_br = None
    /\ cmp_stats = None
    /\ outcome = "st.info@357"

WidgetsShown == prev_file # NoFile /\ curr_file # NoFile

UploadPrev ==
    \E f \in PrevFiles :
        /\ f # prev_file
        /\ Script(f, curr_file, col_map, dtypes_prev, dtypes_curr, key_cols, FALSE)

UploadCurr ==
    \E f \in CurrFiles :
        /\ f # curr_file
        /\ Script(prev_file, f, col_map, dtypes_prev, dtypes_curr, key_cols, FALSE)

SelectKeys ==
    \E ks \in KeySelections(prev_df.cols) :
        /\ WidgetsShown
        /\ ks # key_cols
        /\ Script(prev_file, curr_file, col_map, dtypes_prev, dtypes_curr, ks, FALSE)

SetMap ==
    \E pc \in DOMAIN col_map :
        \E x \in {NoneCol} \cup Range(DropTimestamps(ss_files.curr_raw).cols) :
            /\ WidgetsShown
            /\ x # col_map[pc]
            /\ Script(prev_file, curr_file, [col_map EXCEPT ![pc] = x],
                      dtypes_prev, dtypes_curr, key_cols, FALSE)

SetPrevDtype ==
    \E c \in TypedCols \cap DOMAIN dtypes_prev :
        \E k \in UserKinds :
            /\ WidgetsShown
            /\ k # dtypes_prev[c]
            /\ Script(prev_file, curr_file, col_map, [dtypes_prev EXCEPT ![c] = k],
                      dtypes_curr, key_cols, FALSE)

SetCurrDtype ==
    \E c \in TypedCols \cap DOMAIN dtypes_curr :
        \E k \in UserKinds :
            /\ WidgetsShown
            /\ k # dtypes_curr[c]
            /\ Script(prev_file, curr_file, col_map, dtypes_prev,
                      [dtypes_curr EXCEPT ![c] = k], key_cols, FALSE)

ClickRun ==
    /\ outcome \in ButtonShown
    /\ Script(prev_file, curr_file, col_map, dtypes_prev, dtypes_curr, key_cols, TRUE)

Next ==
    \/ UploadPrev
    \/ UploadCurr
    \/ SelectKeys
    \/ SetMap
    \/ SetPrevDtype
    \/ SetCurrDtype
    \/ ClickRun

Spec == Init /\ [][Next]_vars

(***************************************************************************)
(* The comparison on its own: the session stands where both files are      *)
(* uploaded, every dtype is "float", the key columns are selected and the  *)
(* page shows the "Run Comparison" button; the files range over all small  *)
(* frames.                                                                 *)
(***************************************************************************)
\* the cells a column of the enumerated files takes, by the column's name
ColCells(c) ==
    CASE c = "id" -> {NaN, "1.0"}
      [] c = "v" -> FloatVals
      [] c = "w" -> {NaN, "1.0"}
      [] OTHER -> Cells

RowsOver(cols) ==
    {row \in [DOMAIN cols -> Cells] : \A i \in DOMAIN cols : row[i] \in ColCells(cols[i])}

\* what read_csv gives: float64 columns, object columns for a file without rows
RawFrame(cols, rows) ==
    Frame(cols, [i \in DOMAIN cols |-> IF Len(rows) = 0 THEN "object" ELSE "float64"], rows)

\* the column lists of the two files, and the rows allowed per file
Layouts ==
    {[prev |-> <<"id", "v">>, curr |-> <<"id", "v">>, rows |-> MaxRows],
     [prev |-> <<"id", "note", "w">>, curr |-> <<"id", "note">>, rows |-> MaxRowsWide],
     [prev |-> <<"id", "note">>, curr |-> <<"id", "note", "w">>, rows |-> MaxRowsWide]}

InitCmp ==
    \E lay \in Layouts :
    \E prows \in SeqsUpTo(RowsOver(lay.prev), lay.rows) :
    \E crows \in SeqsUpTo(RowsOver(lay.curr), lay.rows) :
    \E ks \in KeySelections(CommonCols(lay.prev, lay.curr)) \ {<<>>} :
    \E files \in {[prev_file_name |-> "previous.csv", curr_file_name |-> "current.csv",
                   prev_raw |-> RawFrame(lay.prev, prows),
                   curr_raw |-> RawFrame(lay.curr, crows)]} :
    \E p \in {Prepared(files, EmptyMap,
                       [c \in Range(lay.prev) |-> "float"],
                       [c \in Range(lay.curr) |-> "float"])} :
        /\ prev_file = "previous.csv"
        /\ curr_file = "current.csv"
        /\ ss_files = files
        /\ col_map = p.col_map
        /\ dtypes_prev = p.d_prev
        /\ dtypes_curr = p.d_curr
        /\ key_cols = ks
        /\ prev_df = p.prev_df
        /\ curr_df = p.curr_df
        /\ cmp_out = None
        /\ cmp_br = None
        /\ cmp_stats = None
        /\ outcome = "idle"

NextCmp == ClickRun

SpecCmp == InitCmp /\ [][NextCmp]_vars

(***************************************************************************)
(* Properties                                                              *)
(***************************************************************************)
Rendered == outcome = "rendered"

Out == cmp_out[1]

Stats == cmp_stats[1]

IsNew(rec) == rec.desc.text = NewRow

KeyOf(rec) == make_key(rec.row, Out.cols, key_cols)

PrevKeys == {make_key(prev_df.rows[i], prev_df.cols, key_cols) : i \in DOMAIN prev_df.rows}

CurrKeys == {make_key(curr_df.rows[i], curr_df.cols, key_cols) : i \in DOMAIN curr_df.rows}

RECURSIVE IsSubseq(_, _)
IsSubseq(s, t) ==
    IF Len(s) = 0 THEN TRUE
    ELSE IF Len(t) = 0 THEN FALSE
    ELSE IF s[1] = t[1] THEN IsSubseq(Tail(s), Tail(t))
    ELSE IsSubseq(s, Tail(t))

\* C1: comparing a dataset with itself (null cells and duplicate keys included)
\* completes with an empty discrepancy table and dropped = added = 0.
C1_Idempotence ==
    (prev_df = curr_df /\ outcome # "idle") =>
        /\ Rendered
        /\ Out.recs = <<>>
        /\ Stats.dropped = 0
        /\ Stats.added = 0

\* a dataset of two rows with the same key, a null in the key, compared with itself
C1_Witness ==
    /\ Rendered
    /\ prev_df = curr_df
    /\ Len(prev_df.rows) = 2
    /\ key_cols = <<"id">>
    /\ prev_df.rows[1][1] = NaN
    /\ prev_df.rows[2][1] = NaN
    /\ prev_df.rows[1] # prev_df.rows[2]

\* C2: no key string belongs both to a Missing/Modified record and to a New
\* record of the discrepancy table.
C2_Dedup ==
    Rendered =>
        \A i, j \in DOMAIN Out.recs :
            ~(/\ ~IsNew(Out.recs[i])
              /\ IsNew(Out.recs[j])
              /\ KeyOf(Out.recs[i]) = KeyOf(Out.recs[j]))

\* a table with a Modified record and a New record, from which the filter of
\* lines 287-290 removed a current row that had the key of the Modified record
C2_Witness ==
    /\ Rendered
    /\ \E i, j \in DOMAIN Out.recs : ~IsNew(Out.recs[i]) /\ IsNew(Out.recs[j])
    /\ Len(Out.recs) < Len(LeftOnly(prev_df, curr_df)) + Len(LeftOnly(curr_df, prev_df))

\* C3: every New record has a key of the current key-set that the previous
\* key-set lacks, so the distinct keys of New records number at most `added`.
C3_NewKeysAreAdded ==
    Rendered =>
        LET new_keys == {KeyOf(Out.recs[i]) : i \in {j \in DOMAIN Out.recs : IsNew(Out.recs[j])}}
        IN  /\ new_keys \subseteq (CurrKeys \ PrevKeys)
            /\ Cardinality(new_keys) <= Stats.added

\* C4: a previous row in the table is annotated Missing exactly when its key
\* string is not the key string of any current row.
C4_MissingIffKeyAbsent ==
    Rendered =>
        \A i \in DOMAIN Out.recs :
            ~IsNew(Out.recs[i]) =>
                ((Out.recs[i].desc.text = Missing) <=> (KeyOf(Out.recs[i]) \notin CurrKeys))

\* the first current row whose key cells equal those of the record's row
FirstMatch(rec) ==
    LET Same(row) == \A i \in DOMAIN key_cols :
                         /\ ~IsNa(At(row, curr_df.cols, key_cols[i]))
                         /\ At(row, curr_df.cols, key_cols[i]) = At(rec.row, Out.cols, key_cols[i])
    IN  SelectSeq(curr_df.rows, Same)[1]

IsModified(rec) == rec.desc.text = ""

\* C5: the descriptor of a matched previous row lists, in column order, exactly
\* the columns whose two values are not both null and are unequal.
C5_NullEquality ==
    Rendered =>
        \A i \in DOMAIN Out.recs :
            IsModified(Out.recs[i]) =>
                LET rec == Out.recs[i]
                    new == FirstMatch(rec)
                    Old(c) == At(rec.row, Out.cols, c)
                    New(c) == At(new, curr_df.cols, c)
                    Unequal(c) == ~(Old(c) = NaN /\ New(c) = NaN) /\ Old(c) # New(c)
                    cols == SelectSeq(Out.cols, Unequal)
                IN  rec.desc.parts = [k \in DOMAIN cols |->
                                         <<cols[k], Str(Old(cols[k])), Str(New(cols[k]))>>]

\* a Modified record with one column listed and one column null on both sides
C5_Witness ==
    /\ Rendered
    /\ \E i \in DOMAIN Out.recs :
           /\ IsModified(Out.recs[i])
           /\ Len(Out.recs[i].desc.parts) = 1
           /\ \E c \in Range(Out.cols) :
                  /\ At(Out.recs[i].row, Out.cols, c) = NaN
                  /\ At(FirstMatch(Out.recs[i]), curr_df.cols, c) = NaN

\* C6: Missing/Modified records precede New records; the former keep the
\* order of the previous rows, the latter the order of the current rows.
C6_Ordering ==
    Rendered =>
        LET IsDiffRec(rec) == ~IsNew(rec)
            diff == SelectSeq(Out.recs, IsDiffRec)
            new == SelectSeq(Out.recs, IsNew)
        IN  /\ Out.recs = diff \o new
            /\ IsSubseq([i \in DOMAIN diff |-> Reindex(diff[i].row, Out.cols, prev_df.cols)],
                        prev_df.rows)
            /\ IsSubseq([i \in DOMAIN new |-> Reindex(new[i].row, Out.cols, curr_df.cols)],
                        curr_df.rows)

\* C7: pct is >= 0, is 0 for an empty previous file, else is
\* len(out) / len(prev) * 100; and len(out) <= len(prev) + len(curr).
C7_PctAndBounds ==
    Rendered =>
        LET nm == Len(Out.recs)
            pc == Len(prev_df.rows)
            cc == Len(curr_df.rows)
        IN  /\ Stats.pct[2] > 0
            /\ Stats.pct[1] >= 0
            /\ pc = 0 => Stats.pct[1] = 0
            /\ pc # 0 => Stats.pct[1] * pc = nm * 100 * Stats.pct[2]
            /\ Stats.nm = nm
            /\ nm <= pc + cc

\* every row of both files is a discrepancy: pct is 200
C7_Witness ==
    /\ Rendered
    /\ Len(prev_df.rows) = 2
    /\ Len(Out.recs) = Len(prev_df.rows) + Len(curr_df.rows)
    /\ Stats.pct = <<400, 2>>

\* the key selection the script is to refuse
InvalidConfig ==
    \/ key_cols = <<>>
    \/ \E k \in Range(key_cols) :
           \/ k \notin Range(curr_df.cols)
           \/ DtypeAt(prev_df, k) # DtypeAt(curr_df, k)

CacheKept ==
    \/ UNCHANGED <<cmp_out, cmp_br, cmp_stats>>
    \/ cmp_out' = None /\ cmp_br' = None /\ cmp_stats' = None

\* C8: a run of the script with no key column, with a key column the renamed
\* current frame lacks, or with a key column of two dtypes stops before the
\* comparison block and writes none of cmp_out, cmp_br, cmp_stats.
C8_Refused == [][InvalidConfig' => (outcome' \notin ButtonShown /\ CacheKept)]_vars

\* a key column cast to two dtypes is refused while an earlier result is cached
C8_Witness ==
    /\ outcome = "st.stop@260"
    /\ key_cols # <<>>
    /\ cmp_out # None

\* C9: the result on the page is the comparison of the frames and key columns
\* now in effect.
C9_NoStaleResult ==
    Rendered =>
        /\ cmp_out = Some(Comparison(prev_df, curr_df, key_cols).out)
        /\ cmp_stats = Some(Comparison(prev_df, curr_df, key_cols).stats)

\* C10: with a non-key column the current file lacks, a clicked run still
\* produces the discrepancy table.
C10_MissingColumnTolerated ==
    (/\ outcome # "idle"
     /\ \E c \in Range(prev_df.cols) : c \notin Range(curr_df.cols) /\ c \notin Range(key_cols))
        => Rendered

====
